---- MODULE Spec2Model ----
(***************************************************************************)
(* Feedback review state machine, training corpus and admin session        *)
(* gate of the URL phishing checker.                                        *)
(*                                                                          *)
(*   services/feedback_review_system.py  FeedbackReviewSystem               *)
(*   services/admin_auth.py              AdminAuthService                   *)
(*   services/admin_api.py               admin router                       *)
(*   main.py                             local FastAPI backend              *)
(*                                                                          *)
(* Strings whose content the code inspects (URLs, comments) are modelled    *)
(* by a small set of concrete values together with the facts the code       *)
(* reads off them (regex match, substring tests, length).                   *)
(***************************************************************************)
EXTENDS Integers, Sequences, FiniteSets, TLC

(***************************************************************************)
(* Bounds                                                                   *)
(***************************************************************************)
MaxFeedback == 2
MaxClock == 1
MaxLimit == 2
MaxTasks == 1
MaxSessions == 2

(***************************************************************************)
(* Python values                                                            *)
(***************************************************************************)
\* None for an Optional[int]
NoneInt == -1
\* None for an Optional[str] / Optional[dict]
NoneStr == "None"

\* truthiness of an Optional[int]: None and 0 are falsy
TruthyInt(v) == v # NoneInt /\ v # 0

\* str.lower() on the strings the model uses
Lower(s) ==
    CASE s = "Expert" -> "expert"
      [] s = "Reject" -> "reject"
      [] OTHER -> s

\* list.pop(i) leaves the list without its i-th element
RemoveAt(s, i) == [k \in 1..(Len(s) - 1) |-> IF k < i THEN s[k] ELSE s[k + 1]]

\* the elements of a list
Range(s) == {s[k] : k \in 1..Len(s)}

\* list[:n]
Slice(s, n) ==
    LET m == IF n >= 0 THEN (IF n < Len(s) THEN n ELSE Len(s))
             ELSE (IF Len(s) + n > 0 THEN Len(s) + n ELSE 0)
    IN  SubSeq(s, 1, m)

(***************************************************************************)
(* URLs and comments                                                        *)
(***************************************************************************)
UrlPhish == "https://example-phishing.com"
UrlGoogle == "https://www.google.com"
UrlBad == "bad-url"
Urls == {UrlPhish, UrlGoogle, UrlBad}

\* url_pattern.match(url) of _is_valid_url
IsValidUrl(url) == url \in {UrlPhish, UrlGoogle}

\* any(domain in url for domain in trusted_domains)
HasTrustedDomain(url) == url = UrlGoogle

\* len(url)
UrlLen(url) ==
    CASE url = UrlPhish -> 28
      [] url = UrlGoogle -> 22
      [] OTHER -> 7

\* 'phishing' in url.lower()
UrlHasPhishing(url) == url = UrlPhish

\* A comment is None or a string; of a string the code reads its length and
\* which key phrases occur in its lower-cased text.
SpamKeywords == {"spam", "click here", "free", "money", "win", "congratulations"}
JustifyWords == {"fake", "spoof", "suspicious"}
SpamIndicators == {"buy now", "click here", "free money", "urgent", "limited time"}

CommentNone == [isNone |-> TRUE, len |-> 0, phrases |-> {}]
CommentEmpty == [isNone |-> FALSE, len |-> 0, phrases |-> {}]
\* "ok"
CommentTiny == [isNone |-> FALSE, len |-> 2, phrases |-> {}]
\* "looks ok"
CommentShort == [isNone |-> FALSE, len |-> 8, phrases |-> {}]
\* "This is clearly a phishing site"
CommentLong == [isNone |-> FALSE, len |-> 31, phrases |-> {}]
\* "spam site click here for free money"
CommentSpam == [isNone |-> FALSE, len |-> 35,
                phrases |-> {"spam", "click here", "free", "money", "free money"}]
\* "Fake domain spoofing the real site"
CommentFake == [isNone |-> FALSE, len |-> 34, phrases |-> {"fake", "spoof"}]
Comments == {CommentNone, CommentEmpty, CommentTiny, CommentShort, CommentLong,
             CommentSpam, CommentFake}

\* truthiness of an Optional[str]: None and "" are falsy
TruthyComment(c) == ~c.isNone /\ c.len > 0

(***************************************************************************)
(* FeedbackStatus                                                           *)
(***************************************************************************)
PENDING == "pending"
APPROVED == "approved"
REJECTED == "rejected"
AUTO_APPROVED == "auto_approved"
FLAGGED == "flagged"
FeedbackStatus == {PENDING, APPROVED, REJECTED, AUTO_APPROVED, FLAGGED}

(***************************************************************************)
(* FeedbackReviewSystem: automated validation                               *)
(***************************************************************************)
\* _is_valid_url
IsValidUrlFlag(fb) == IF IsValidUrl(fb.url) THEN <<>> ELSE <<"invalid_url_format">>

\* _check_suspicious_patterns
CheckSuspiciousPatterns(fb) ==
    LET c == fb.user_comment
    IN  \/ (~c.isNone /\ c.phrases \cap SpamKeywords # {})
        \/ (TruthyComment(c) /\ c.len < 5)

\* _check_contradictions without the look at the label
CheckContradictionsAnyLabel(fb) ==
    /\ HasTrustedDomain(fb.url)
    /\ (IF fb.user_comment.isNone THEN {} ELSE fb.user_comment.phrases) \cap JustifyWords = {}

\* _check_contradictions
CheckContradictions(fb) ==
    /\ fb.correct_label = 1
    /\ HasTrustedDomain(fb.url)
    /\ (IF fb.user_comment.isNone THEN {} ELSE fb.user_comment.phrases) \cap JustifyWords = {}

\* _run_automated_validation
RunAutomatedValidation(fb) ==
    LET confidence == fb.confidence_level
        expertise == IF fb.user_expertise = NoneStr THEN "" ELSE Lower(fb.user_expertise)
        comment == fb.user_comment
        f1 == IsValidUrlFlag(fb)
        f2 == IF CheckSuspiciousPatterns(fb) THEN <<"suspicious_pattern">> ELSE <<>>
        s3 == IF TruthyInt(confidence) /\ confidence >= 4 THEN 2 ELSE 0
        f3 == IF ~(TruthyInt(confidence) /\ confidence >= 4)
                 /\ TruthyInt(confidence) /\ confidence <= 2
              THEN <<"low_confidence">> ELSE <<>>
        s4 == IF expertise = "expert" THEN 3
              ELSE IF expertise = "beginner" THEN -1 ELSE 0
        s5 == IF TruthyComment(comment) /\ comment.len > 20 THEN 1 ELSE 0
        f5 == IF ~(TruthyComment(comment) /\ comment.len > 20) /\ ~TruthyComment(comment)
              THEN <<"no_explanation">> ELSE <<>>
        f6 == IF CheckContradictions(fb) THEN <<"contradictory_feedback">> ELSE <<>>
        flags == f1 \o f2 \o f3 \o f5 \o f6
        validation_score == s3 + s4 + s5
        auto == validation_score >= 5 /\ Len(flags) = 0
        status == IF auto THEN AUTO_APPROVED
                  ELSE IF Len(flags) > 2 \/ "suspicious_pattern" \in Range(flags)
                       THEN FLAGGED ELSE PENDING
    IN  [validation_score |-> validation_score,
         flags |-> flags,
         decision |-> IF auto THEN "auto_approved" ELSE NoneStr,
         status |-> status]

(***************************************************************************)
(* AdminAuthService: stateless session tokens                               *)
(***************************************************************************)
\* config['ADMIN_TOKEN_SECRET'] and a key the server does not use
ServerSecret == "phishing-admin-secret-key-2026-stable"
OtherSecret == "guessed-secret"
AdminUsername == "admin"

\* base64.urlsafe_b64encode(payload) and its inverse urlsafe_b64decode
B64Encode(payload) == [b64 |-> payload]
B64Decode(encoded) == encoded.b64

\* hmac.new(secret, msg, sha256).hexdigest(): equal exactly for equal key and message
Hmac(secret, msg) == [key |-> secret, msg |-> msg]

\* the token string "encoded_payload:signature" built by _generate_session_token
MakeToken(username, expiry_ts, secret) ==
    LET encoded_payload == B64Encode(<<username, expiry_ts>>)
    IN  [encoded_payload |-> encoded_payload,
         signature |-> Hmac(secret, encoded_payload)]

\* the expiry timestamp and the username a token's payload carries
TokenExpiry(token) == B64Decode(token.encoded_payload)[2]
TokenUsername(token) == B64Decode(token.encoded_payload)[1]

\* validate_token without the look at the revocation set
ValidateTokenIgnoringRevocation(token, revoked, clock) ==
    /\ token.signature = Hmac(ServerSecret, token.encoded_payload)
    /\ ~(clock > B64Decode(token.encoded_payload)[2])

\* validate_token: TRUE when it returns session info, FALSE when it returns None
ValidateToken(token, revoked, clock) ==
    /\ token \notin revoked
    /\ token.signature = Hmac(ServerSecret, token.encoded_payload)
    /\ ~(clock > B64Decode(token.encoded_payload)[2])

\* the Authorization header of a request: absent, or "Bearer <token>"
NoHeader == [scheme |-> "none", token |-> MakeToken("", 0, "")]
Bearer(token) == [scheme |-> "Bearer", token |-> token]

\* verify_admin_token: TRUE when the request passes, FALSE when it raises 401
VerifyAdminToken(authorization, revoked, clock) ==
    /\ authorization.scheme = "Bearer"
    /\ ValidateToken(authorization.token, revoked, clock)

\* the headers requests are sent with: none, a token of the server that
\* expires after the first clock value, one that outlives the clock, and a
\* token signed with another key
RequestHeaders ==
    { NoHeader,
      Bearer(MakeToken(AdminUsername, 0, ServerSecret)),
      Bearer(MakeToken(AdminUsername, MaxClock, ServerSecret)),
      Bearer(MakeToken(AdminUsername, MaxClock, OtherSecret)) }

(***************************************************************************)
(* Inputs of the state machine                                              *)
(***************************************************************************)
\* submit_user_feedback(url, correct_label, user_comment, confidence_level,
\* user_expertise): the submissions the state machine is driven with
Submission(url, label, comment, confidence, expertise) ==
    [url |-> url, correct_label |-> label, user_comment |-> comment,
     confidence_level |-> confidence, user_expertise |-> expertise]

Submissions ==
    { Submission(UrlPhish, 1, CommentLong, 5, "expert"),
      Submission(UrlPhish, 0, CommentShort, 3, "intermediate"),
      Submission(UrlPhish, 1, CommentLong, 3, "Expert"),
      Submission(UrlGoogle, 1, CommentSpam, 1, "beginner"),
      Submission(UrlBad, 1, CommentEmpty, 2, NoneStr) }

\* admin_decision strings handed to admin_review_feedback
Decisions == {"approve", "Reject", "skip"}
AdminComments == {"", "duplicate"}
AdminIds == {"admin"}

(***************************************************************************)
(* State                                                                    *)
(***************************************************************************)
VARIABLES
    now,             \* the clock read by datetime.now() / time.time()
    nextId,          \* number of feedback ids handed out so far
    memPending,      \* FeedbackReviewSystem._memory_pending
    filePending,     \* pending_feedback.json
    memReviewed,     \* FeedbackReviewSystem._memory_reviewed
    fileReviewed,    \* reviewed_feedback.json
    memRejected,     \* FeedbackReviewSystem._memory_rejected
    fileRejected,    \* rejected_feedback.json
    memDataset,      \* FeedbackReviewSystem._memory_approved_dataset
    csvDataset,      \* approved_feedback_dataset.csv
    adminDecisions,  \* admin_decisions.json
    memMetrics,      \* FeedbackReviewSystem._memory_quality_metrics
    fileMetrics,     \* quality_metrics.json
    result,          \* what the last call returned
    failed_attempts, \* AdminAuthService.failed_attempts
    active_sessions, \* AdminAuthService._class_sessions
    revoked_tokens,  \* AdminAuthService._revoked_tokens
    validationFile,  \* main.py: data/feedback_with_validation.json
    feedbackFile,    \* main.py: data/feedback.json
    feedbackDataset, \* main.py: data/feedback_dataset.csv
    validatedDataset,\* main.py: data/validated_dataset.csv
    backgroundTasks, \* main.py: BackgroundTasks batches not yet run
    request,         \* the HTTP request being answered
    callers          \* concurrent admin_review_feedback calls in progress

reviewVars == <<memPending, filePending, memReviewed, fileReviewed, memRejected,
                fileRejected, memDataset, csvDataset, adminDecisions, memMetrics,
                fileMetrics>>

authVars == <<failed_attempts, active_sessions, revoked_tokens>>

mainVars == <<validationFile, feedbackFile, feedbackDataset, validatedDataset,
              backgroundTasks>>

vars == <<now, nextId, reviewVars, result, authVars, mainVars, request, callers>>

ZeroMetrics == [total_reviewed |-> 0, approved |-> 0, rejected |-> 0,
                approval_rate |-> <<0, 1>>]

NoResult == [op |-> "none"]

\* no HTTP request: the services are called directly
NoRequest == [endpoint |-> "none", authorization |-> NoHeader]

\* the threads that call admin_review_feedback concurrently
Callers == {"c1", "c2"}
IdleCaller == [pc |-> "idle"]

Init ==
    /\ now = 0
    /\ nextId = 0
    /\ memPending = <<>>
    /\ filePending = <<>>
    /\ memReviewed = <<>>
    /\ fileReviewed = <<>>
    /\ memRejected = <<>>
    /\ fileRejected = <<>>
    /\ memDataset = <<>>
    /\ csvDataset = <<>>
    /\ adminDecisions = <<>>
    /\ memMetrics = ZeroMetrics
    /\ fileMetrics = ZeroMetrics
    /\ result = NoResult
    /\ failed_attempts = <<>>
    /\ active_sessions = {}
    /\ revoked_tokens = {}
    /\ validationFile = <<>>
    /\ feedbackFile = <<>>
    /\ feedbackDataset = <<>>
    /\ validatedDataset = <<>>
    /\ backgroundTasks = <<>>
    /\ request = NoRequest
    /\ callers = [c \in Callers |-> IdleCaller]

\* time passes between two calls
Tick ==
    /\ now < MaxClock
    /\ now' = now + 1
    /\ UNCHANGED <<nextId, reviewVars, result, authVars, mainVars, request, callers>>

(***************************************************************************)
(* FeedbackReviewSystem.submit_user_feedback                                *)
(***************************************************************************)
\* feedback_data after feedback_data.update(auto_result)
NewFeedback(sub, id, ts) ==
    LET auto == RunAutomatedValidation(sub)
    IN  [feedback_id |-> id,
         timestamp |-> ts,
         url |-> sub.url,
         correct_label |-> sub.correct_label,
         user_comment |-> sub.user_comment,
         confidence_level |-> sub.confidence_level,
         user_expertise |-> sub.user_expertise,
         status |-> auto.status,
         validation_score |-> auto.validation_score,
         auto_decision |-> auto.decision,
         flagged_reasons |-> auto.flags,
         rejection_reason |-> NoneStr]

SubmitUserFeedback(sub) ==
    /\ nextId < MaxFeedback
    /\ LET fb == NewFeedback(sub, nextId + 1, now)
       IN  /\ nextId' = nextId + 1
           \* _save_pending_feedback
           /\ memPending' = Append(memPending, fb)
           /\ filePending' = Append(filePending, fb)
           /\ result' = [op |-> "submit", feedback_id |-> fb.feedback_id,
                         status |-> fb.status]
    /\ UNCHANGED <<now, memReviewed, fileReviewed, memRejected, fileRejected,
                   memDataset, csvDataset, adminDecisions, memMetrics, fileMetrics,
                   authVars, mainVars, request, callers>>

(***************************************************************************)
(* FeedbackReviewSystem: stores                                             *)
(***************************************************************************)
\* new_entry of _add_to_training_dataset
DatasetEntry(fb) ==
    [url |-> fb.url, label |-> fb.correct_label, source |-> "user_feedback",
     feedback_id |-> fb.feedback_id, timestamp |-> fb.timestamp]

\* a variant of AddToMemoryDataset that appends without looking for the url
AddToMemoryDatasetAlways(ds, fb) == Append(ds, DatasetEntry(fb))

\* _add_to_training_dataset, class-level memory: an entry is added only when
\* its url is not there yet
AddToMemoryDataset(ds, fb) ==
    IF fb.url \in {ds[k].url : k \in 1..Len(ds)} THEN ds
    ELSE Append(ds, DatasetEntry(fb))

\* df.drop_duplicates(subset=['url'], keep='last')
DropDuplicatesKeepLast(df) ==
    LET keep == {k \in 1..Len(df) : \A j \in (k + 1)..Len(df) : df[j].url # df[k].url}
        F[k \in 0..Len(df)] ==
            IF k = 0 THEN <<>>
            ELSE IF k \in keep THEN Append(F[k - 1], df[k]) ELSE F[k - 1]
    IN  F[Len(df)]

\* _add_to_training_dataset, CSV file
AddToCsvDataset(df, fb) == DropDuplicatesKeepLast(Append(df, DatasetEntry(fb)))

\* _update_quality_metrics on one metrics dict
UpdateQualityMetrics(m, decision) ==
    LET total == m.total_reviewed + 1
        isApprove == decision # "" /\ Lower(decision) = "approve"
        approved == IF isApprove THEN m.approved + 1 ELSE m.approved
        rejected == IF isApprove THEN m.rejected ELSE m.rejected + 1
    IN  [total_reviewed |-> total, approved |-> approved, rejected |-> rejected,
         approval_rate |-> <<approved * 100, total>>]

\* index of the first item of a list with this feedback_id, 0 when there is none
FindById(list, id) ==
    IF \E k \in 1..Len(list) : list[k].feedback_id = id
    THEN CHOOSE k \in 1..Len(list) :
            /\ list[k].feedback_id = id
            /\ \A j \in 1..(k - 1) : list[j].feedback_id # id
    ELSE 0

\* the list without the items of this feedback_id
WithoutId(list, id) == SelectSeq(list, LAMBDA item : item.feedback_id # id)

\* a variant of DecisionLog that loses the admin's comment
DecisionLogNoComment(id, decision, comment, admin, ts, fb) ==
    [feedback_id |-> id, admin_id |-> admin, decision |-> decision,
     admin_comment |-> "", timestamp |-> ts, original_feedback |-> fb]

\* admin_decision_log
DecisionLog(id, decision, comment, admin, ts, fb) ==
    [feedback_id |-> id, admin_id |-> admin, decision |-> decision,
     admin_comment |-> comment, timestamp |-> ts, original_feedback |-> fb]

(***************************************************************************)
(* FeedbackReviewSystem.get_pending_feedback                                *)
(***************************************************************************)
\* a variant of SortKey that orders by timestamp alone
SortKeyTimestampOnly(fb) == <<1, fb.timestamp>>

\* the key of pending.sort: flagged first, then the timestamp
SortKey(fb) == <<IF fb.status = FLAGGED THEN 0 ELSE 1, fb.timestamp>>

\* tuple comparison a <= b of two sort keys
KeyLeq(a, b) == a[1] < b[1] \/ (a[1] = b[1] /\ a[2] <= b[2])

\* list.sort(key=...): stable, ascending
SortByKey(list) ==
    LET Insert(sorted, x) ==
            LET n == Cardinality({k \in 1..Len(sorted) :
                                    KeyLeq(SortKey(sorted[k]), SortKey(x))})
            IN  SubSeq(sorted, 1, n) \o <<x>> \o SubSeq(sorted, n + 1, Len(sorted))
        F[k \in 0..Len(list)] == IF k = 0 THEN <<>> ELSE Insert(F[k - 1], list[k])
    IN  F[Len(list)]

\* the open statuses get_pending_feedback filters on
OpenStatus(fb) == fb.status \in {PENDING, FLAGGED}

\* get_pending_feedback(limit) on the given memory and file stores
GetPendingFeedback(mem, file, limit) ==
    LET existing_ids == {mem[k].feedback_id : k \in 1..Len(mem)}
        all_feedback ==
            mem \o SelectSeq(file, LAMBDA item : item.feedback_id \notin existing_ids)
        pending == SelectSeq(all_feedback, OpenStatus)
    IN  Slice(SortByKey(pending), limit)

GetPendingFeedbackCall(limit) ==
    /\ result' = [op |-> "pending", limit |-> limit,
                  items |-> GetPendingFeedback(memPending, filePending, limit)]
    /\ UNCHANGED <<now, nextId, reviewVars, authVars, mainVars, request, callers>>

(***************************************************************************)
(* FeedbackReviewSystem.admin_review_feedback                               *)
(***************************************************************************)
\* lines 272-286: the item is popped from the list loaded from the pending
\* file, else it is the dict held by the memory store
LookupFeedback(file, mem, id) ==
    LET i == FindById(file, id)
        j == FindById(mem, id)
    IN  [pending_feedback |-> IF i > 0 THEN RemoveAt(file, i) ELSE file,
         found |-> i > 0 \/ j > 0,
         fromMemory |-> i = 0 /\ j > 0,
         item |-> IF i > 0 THEN file[i] ELSE IF j > 0 THEN mem[j] ELSE NoneStr]

\* admin_decision and admin_decision.lower() == word
DecisionIs(decision, word) == decision # "" /\ Lower(decision) = word

\* lines 294-303: the status written on the item
DecideItem(item, decision, comment) ==
    IF DecisionIs(decision, "approve") THEN [item EXCEPT !.status = APPROVED]
    ELSE IF DecisionIs(decision, "reject")
         THEN [item EXCEPT !.status = REJECTED, !.rejection_reason = comment]
         ELSE item

\* the dict admin_review_feedback returns; the message is kept as its parts
ReviewResult(ok, msg, id) ==
    [op |-> "review", success |-> ok, message |-> msg, feedback_id |-> id]

AdminReviewFeedback(id, decision, comment, admin) ==
    LET look == LookupFeedback(filePending, memPending, id)
        item == DecideItem(look.item, decision, comment)
    IN  IF ~look.found
        THEN /\ result' = ReviewResult(FALSE, <<"Feedback not found">>, id)
             /\ UNCHANGED <<now, nextId, reviewVars, authVars, mainVars, request,
                            callers>>
        ELSE /\ IF DecisionIs(decision, "approve")
                THEN /\ memDataset' = AddToMemoryDataset(memDataset, item)
                     /\ csvDataset' = AddToCsvDataset(csvDataset, item)
                     /\ memReviewed' = Append(memReviewed, item)
                     /\ fileReviewed' = Append(fileReviewed, item)
                     /\ UNCHANGED <<memRejected, fileRejected>>
                ELSE IF DecisionIs(decision, "reject")
                THEN /\ memRejected' = Append(memRejected, item)
                     /\ fileRejected' = Append(fileRejected, item)
                     /\ UNCHANGED <<memDataset, csvDataset, memReviewed, fileReviewed>>
                ELSE UNCHANGED <<memDataset, csvDataset, memReviewed, fileReviewed,
                                 memRejected, fileRejected>>
             \* _log_admin_decision
             /\ adminDecisions' =
                    Append(adminDecisions, DecisionLog(id, decision, comment, admin, now, item))
             \* the item leaves the memory store and the pending file
             /\ memPending' = WithoutId(memPending, id)
             /\ filePending' = look.pending_feedback
             \* _update_quality_metrics
             /\ memMetrics' = UpdateQualityMetrics(memMetrics, decision)
             /\ fileMetrics' = UpdateQualityMetrics(fileMetrics, decision)
             /\ result' = ReviewResult(TRUE, <<"Feedback ", decision, "d successfully">>, id)
             /\ UNCHANGED <<now, nextId, authVars, mainVars, request, callers>>

\* the ids a review call can name
FeedbackIds == 1..MaxFeedback
\* limit is a count of records: zero or more
Limits == 0..MaxLimit

Next ==
    \/ Tick
    \/ \E sub \in Submissions : SubmitUserFeedback(sub)
    \/ \E limit \in Limits : GetPendingFeedbackCall(limit)
    \/ \E id \in FeedbackIds, decision \in Decisions, comment \in AdminComments,
          admin \in AdminIds : AdminReviewFeedback(id, decision, comment, admin)

Spec == Init /\ [][Next]_vars

(***************************************************************************)
(* main.py: feedback endpoints of the local backend                         *)
(***************************************************************************)
\* FeedbackValidator.validate_feedback of main.py; raised is TRUE when the
\* call ends in a TypeError / AttributeError
ValidateFeedback(fd) ==
    LET raised == fd.confidence_level = NoneInt \/ fd.user_comment.isNone
        s1 == fd.confidence_level * 20
        s2 == CASE fd.user_expertise = "expert" -> 40
                [] fd.user_expertise = "intermediate" -> 25
                [] fd.user_expertise = "beginner" -> 10
                [] OTHER -> 10
        bad_url == UrlLen(fd.url) = 0 \/ UrlLen(fd.url) < 10
        spam == fd.user_comment.phrases \cap SpamIndicators # {}
        conflict == UrlHasPhishing(fd.url) /\ fd.correct_label = 0
        score == s1 + s2 - (IF spam THEN 30 ELSE 0) - (IF conflict THEN 20 ELSE 0)
        notes == (IF bad_url THEN <<"Invalid URL format">> ELSE <<>>)
                 \o (IF spam THEN <<"Potential spam content detected">> ELSE <<>>)
                 \o (IF fd.user_comment.len > 500 THEN <<"Comment too long">> ELSE <<>>)
                 \o (IF conflict THEN <<"Label conflicts with URL pattern">> ELSE <<>>)
    IN  [raised |-> raised,
         is_valid |-> ~bad_url,
         confidence_score |-> score,
         validation_notes |-> notes,
         auto_approve |-> score >= 80 /\ ~bad_url]

\* feedback_data of submit_feedback after feedback_data.update(...)
MainFeedback(sub, id, ts) ==
    LET v == ValidateFeedback(sub)
    IN  [feedback_id |-> id,
         timestamp |-> ts,
         url |-> sub.url,
         correct_label |-> sub.correct_label,
         user_comment |-> sub.user_comment,
         confidence_level |-> sub.confidence_level,
         user_expertise |-> sub.user_expertise,
         validation_status |-> IF ~v.is_valid THEN "rejected"
                               ELSE IF v.auto_approve THEN "approved" ELSE "pending",
         confidence_score |-> v.confidence_score,
         validation_notes |-> v.validation_notes,
         approved_timestamp |-> NoneInt,
         rejected_timestamp |-> NoneInt,
         rejection_reason |-> NoneStr]

\* update_training_dataset: every saved feedback goes to feedback_dataset.csv
UpdateTrainingDataset(df, fd) ==
    DropDuplicatesKeepLast(Append(df, [url |-> fd.url, label |-> fd.correct_label]))

\* the tasks added for an approved feedback: process_approved_feedback_task,
\* process_feedback_retraining
ApprovedTasks(fd) == <<[task |-> "process_approved_feedback_task", feedback |-> fd],
                       [task |-> "process_feedback_retraining", feedback |-> fd]>>

MainResult(endpoint, ok, msg, id) ==
    [op |-> endpoint, success |-> ok, message |-> msg, feedback_id |-> id]

\* POST /feedback
MainSubmitFeedback(sub) ==
    /\ nextId < MaxFeedback
    /\ Len(backgroundTasks) < MaxTasks
    /\ request' = [endpoint |-> "/feedback", authorization |-> NoHeader]
    /\ LET fd == MainFeedback(sub, nextId + 1, now)
       IN  IF ValidateFeedback(sub).raised
           THEN /\ result' = MainResult("/feedback", FALSE, "Error processing feedback", 0)
                /\ UNCHANGED <<nextId, mainVars>>
           ELSE /\ nextId' = nextId + 1
                \* save_feedback_with_validation, save_feedback, update_training_dataset
                /\ validationFile' = Append(validationFile, fd)
                /\ feedbackFile' = Append(feedbackFile, fd)
                /\ feedbackDataset' = UpdateTrainingDataset(feedbackDataset, fd)
                /\ backgroundTasks' =
                       IF fd.validation_status = "approved"
                       THEN Append(backgroundTasks, ApprovedTasks(fd))
                       ELSE backgroundTasks
                /\ UNCHANGED validatedDataset
                /\ result' = MainResult("/feedback", TRUE, fd.validation_status,
                                        fd.feedback_id)
    /\ UNCHANGED <<now, reviewVars, authVars, callers>>

\* POST /feedback/{feedback_id}/approve
MainApproveFeedback(id, header) ==
    /\ Len(backgroundTasks) < MaxTasks
    /\ request' = [endpoint |-> "/feedback/{feedback_id}/approve", authorization |-> header]
    /\ LET i == FindById(validationFile, id)
           feedback == [validationFile[i] EXCEPT !.validation_status = "approved",
                                                 !.approved_timestamp = now]
       IN  IF Len(validationFile) = 0
           THEN /\ result' = MainResult("approve", FALSE, "No feedback data found", id)
                /\ UNCHANGED mainVars
           ELSE IF i = 0
           THEN /\ result' = MainResult("approve", FALSE, "Feedback not found", id)
                /\ UNCHANGED mainVars
           ELSE /\ validationFile' = [validationFile EXCEPT ![i] = feedback]
                /\ backgroundTasks' = Append(backgroundTasks, ApprovedTasks(feedback))
                /\ result' = MainResult("approve", TRUE,
                                        "Feedback approved and added to dataset", id)
                /\ UNCHANGED <<feedbackFile, feedbackDataset, validatedDataset>>
    /\ UNCHANGED <<now, nextId, reviewVars, authVars, callers>>

\* POST /feedback/{feedback_id}/reject
MainRejectFeedback(id, reason, header) ==
    /\ request' = [endpoint |-> "/feedback/{feedback_id}/reject", authorization |-> header]
    /\ LET i == FindById(validationFile, id)
           feedback == [validationFile[i] EXCEPT
                            !.validation_status = "rejected",
                            !.rejected_timestamp = now,
                            !.rejection_reason = IF reason # "" /\ reason # NoneStr
                                                 THEN reason ELSE @]
       IN  IF Len(validationFile) = 0
           THEN /\ result' = MainResult("reject", FALSE, "No feedback data found", id)
                /\ UNCHANGED mainVars
           ELSE IF i = 0
           THEN /\ result' = MainResult("reject", FALSE, "Feedback not found", id)
                /\ UNCHANGED mainVars
           ELSE /\ validationFile' = [validationFile EXCEPT ![i] = feedback]
                /\ result' = MainResult("reject", TRUE, "Feedback rejected", id)
                /\ UNCHANGED <<feedbackFile, feedbackDataset, validatedDataset,
                               backgroundTasks>>
    /\ UNCHANGED <<now, nextId, reviewVars, authVars, callers>>

\* new_entry of process_approved_feedback_task
ValidatedEntry(fd) ==
    [url |-> fd.url, label |-> fd.correct_label,
     validation_score |-> fd.confidence_score,
     timestamp |-> fd.timestamp, feedback_id |-> fd.feedback_id]

\* df.sort_values('validation_score', ascending=False): the default sort is
\* not stable, so rows of equal score may come out in any order
SortValuesDescending(df) ==
    {[k \in 1..Len(df) |-> df[perm[k]]] : perm \in
        {q \in Permutations(1..Len(df)) :
            \A a, b \in 1..Len(df) :
                a < b => df[q[a]].validation_score >= df[q[b]].validation_score}}

\* df.drop_duplicates(subset=['url'], keep='first')
DropDuplicatesKeepFirst(df) ==
    LET keep == {k \in 1..Len(df) : \A j \in 1..(k - 1) : df[j].url # df[k].url}
        F[k \in 0..Len(df)] ==
            IF k = 0 THEN <<>>
            ELSE IF k \in keep THEN Append(F[k - 1], df[k]) ELSE F[k - 1]
    IN  F[Len(df)]

\* process_approved_feedback_task: the datasets it may leave in validated_dataset.csv
ProcessApprovedFeedbackTask(df, fd) ==
    {DropDuplicatesKeepFirst(sorted) :
        sorted \in SortValuesDescending(Append(df, ValidatedEntry(fd)))}

\* the background tasks of the oldest answered request run, one after the
\* other; process_feedback_retraining only retrains the model
RunBackgroundTasks ==
    /\ Len(backgroundTasks) > 0
    /\ \E df \in ProcessApprovedFeedbackTask(validatedDataset,
                                             Head(backgroundTasks)[1].feedback) :
           validatedDataset' = df
    /\ backgroundTasks' = Tail(backgroundTasks)
    /\ UNCHANGED <<now, nextId, reviewVars, result, authVars, validationFile,
                   feedbackFile, feedbackDataset, request, callers>>

RejectionReasons == {NoneStr, "not phishing"}

NextMain ==
    \/ Tick
    \/ \E sub \in Submissions : MainSubmitFeedback(sub)
    \/ \E id \in FeedbackIds, header \in RequestHeaders : MainApproveFeedback(id, header)
    \/ \E id \in FeedbackIds, reason \in RejectionReasons, header \in RequestHeaders :
          MainRejectFeedback(id, reason, header)
    \/ RunBackgroundTasks

SpecMain == Init /\ [][NextMain]_vars

(***************************************************************************)
(* admin_review_feedback called from two threads                            *)
(*                                                                          *)
(* The method takes no lock.  A call is split where it reads or writes a    *)
(* shared store: the load of the pending file and the lookup (lines         *)
(* 272-289), the decision with its dataset and reviewed/rejected writes     *)
(* (291-305), the audit entry (307-317), the memory store update (319-323)  *)
(* and the rewrite of the pending file with the metrics update (325-339).   *)
(***************************************************************************)
\* lines 272-289
ReviewLoad(c, id, decision, comment, admin) ==
    /\ callers[c].pc = "idle"
    /\ LET look == LookupFeedback(filePending, memPending, id)
       IN  callers' = [callers EXCEPT ![c] =
               IF look.found
               THEN [pc |-> "decide", feedback_id |-> id, admin_decision |-> decision,
                     admin_comment |-> comment, admin_id |-> admin,
                     pending_feedback |-> look.pending_feedback,
                     feedback_item |-> look.item, fromMemory |-> look.fromMemory,
                     decision_timestamp |-> NoneInt]
               ELSE [pc |-> "done", feedback_id |-> id,
                     ret |-> ReviewResult(FALSE, <<"Feedback not found">>, id)]]
    /\ UNCHANGED <<now, nextId, reviewVars, result, authVars, mainVars, request>>

\* lines 291-305
ReviewDecide(c) ==
    /\ callers[c].pc = "decide"
    /\ LET me == callers[c]
           item == DecideItem(me.feedback_item, me.admin_decision, me.admin_comment)
           j == FindById(memPending, me.feedback_id)
       IN  /\ callers' = [callers EXCEPT ![c] =
                              [me EXCEPT !.pc = "log", !.feedback_item = item,
                                         !.decision_timestamp = now]]
           \* an item taken from the memory store is the stored dict itself
           /\ memPending' = IF me.fromMemory /\ j > 0
                            THEN [memPending EXCEPT ![j] = item] ELSE memPending
           /\ IF DecisionIs(me.admin_decision, "approve")
              THEN /\ memDataset' = AddToMemoryDataset(memDataset, item)
                   /\ csvDataset' = AddToCsvDataset(csvDataset, item)
                   /\ memReviewed' = Append(memReviewed, item)
                   /\ fileReviewed' = Append(fileReviewed, item)
                   /\ UNCHANGED <<memRejected, fileRejected>>
              ELSE IF DecisionIs(me.admin_decision, "reject")
              THEN /\ memRejected' = Append(memRejected, item)
                   /\ fileRejected' = Append(fileRejected, item)
                   /\ UNCHANGED <<memDataset, csvDataset, memReviewed, fileReviewed>>
              ELSE UNCHANGED <<memDataset, csvDataset, memReviewed, fileReviewed,
                               memRejected, fileRejected>>
    /\ UNCHANGED <<now, nextId, filePending, adminDecisions, memMetrics, fileMetrics,
                   result, authVars, mainVars, request>>

\* lines 307-317
ReviewLog(c) ==
    /\ callers[c].pc = "log"
    /\ LET me == callers[c]
       IN  /\ adminDecisions' =
                  Append(adminDecisions,
                         DecisionLog(me.feedback_id, me.admin_decision, me.admin_comment,
                                     me.admin_id, me.decision_timestamp, me.feedback_item))
           /\ callers' = [callers EXCEPT ![c] = [me EXCEPT !.pc = "remove"]]
    /\ UNCHANGED <<now, nextId, memPending, filePending, memReviewed, fileReviewed,
                   memRejected, fileRejected, memDataset, csvDataset, memMetrics,
                   fileMetrics, result, authVars, mainVars, request>>

\* lines 319-323
ReviewRemove(c) ==
    /\ callers[c].pc = "remove"
    /\ memPending' = WithoutId(memPending, callers[c].feedback_id)
    /\ callers' = [callers EXCEPT ![c] = [callers[c] EXCEPT !.pc = "write"]]
    /\ UNCHANGED <<now, nextId, filePending, memReviewed, fileReviewed, memRejected,
                   fileRejected, memDataset, csvDataset, adminDecisions, memMetrics,
                   fileMetrics, result, authVars, mainVars, request>>

\* lines 325-339
ReviewWrite(c) ==
    /\ callers[c].pc = "write"
    /\ LET me == callers[c]
       IN  /\ filePending' = me.pending_feedback
           /\ memMetrics' = UpdateQualityMetrics(memMetrics, me.admin_decision)
           /\ fileMetrics' = UpdateQualityMetrics(fileMetrics, me.admin_decision)
           /\ callers' = [callers EXCEPT ![c] =
                  [pc |-> "done", feedback_id |-> me.feedback_id,
                   ret |-> ReviewResult(TRUE, <<"Feedback ", me.admin_decision,
                                                "d successfully">>, me.feedback_id)]]
    /\ UNCHANGED <<now, nextId, memPending, memReviewed, fileReviewed, memRejected,
                   fileRejected, memDataset, csvDataset, adminDecisions, result,
                   authVars, mainVars, request>>

\* feedback is submitted before the two reviews start
SubmitBeforeReviews(sub) ==
    /\ \A c \in Callers : callers[c].pc = "idle"
    /\ SubmitUserFeedback(sub)

NextConc ==
    \/ Tick
    \/ \E sub \in Submissions : SubmitBeforeReviews(sub)
    \/ \E c \in Callers, id \in FeedbackIds, decision \in Decisions,
          comment \in AdminComments, admin \in AdminIds :
          ReviewLoad(c, id, decision, comment, admin)
    \/ \E c \in Callers : ReviewDecide(c)
    \/ \E c \in Callers : ReviewLog(c)
    \/ \E c \in Callers : ReviewRemove(c)
    \/ \E c \in Callers : ReviewWrite(c)

SpecConc == Init /\ [][NextConc]_vars

(***************************************************************************)
(* AdminAuthService: login, rate limiting, logout                           *)
(***************************************************************************)
\* the defaults of __init__ and _load_config
MaxLoginAttempts == 5
LoginTimeoutMinutes == 15
SessionTimeout == 86400
AdminPassword == "SecureAdmin123!"

\* timedelta(minutes=self.timeout_minutes), in seconds
LoginTimeout == LoginTimeoutMinutes * 60

\* the usernames and passwords login requests carry
Usernames == {AdminUsername, "guest"}
Passwords == {AdminPassword, "wrong"}

\* the instants, in seconds, at which calls are made: within the same second,
\* just before and at the end of the lockout period, and after the expiry of a
\* session opened in the first second
AuthTimes == {0, LoginTimeout - 1, LoginTimeout, SessionTimeout + 1}

\* time passes between two calls to the authentication service
Elapse ==
    /\ \E t \in AuthTimes : t > now /\ now' = t
    /\ UNCHANGED <<nextId, reviewVars, result, authVars, mainVars, request, callers>>

\* _validate_credentials: username matches only
ValidateCredentialsUsernameOnly(username, password) == username = AdminUsername

\* _validate_credentials
ValidateCredentials(username, password) ==
    username = AdminUsername /\ password = AdminPassword

\* _is_rate_limited letting one more attempt through
IsRateLimitedAfterMax(fa, username, clock) ==
    /\ username \in DOMAIN fa
    /\ ~(fa[username].count <= MaxLoginAttempts)
    /\ ~(clock - fa[username].last_attempt >= LoginTimeout)

\* _is_rate_limited: what it returns
IsRateLimited(fa, username, clock) ==
    /\ username \in DOMAIN fa
    /\ ~(fa[username].count < MaxLoginAttempts)
    /\ ~(clock - fa[username].last_attempt >= LoginTimeout)

\* dict without a key
WithoutKey(f, key) == [k \in DOMAIN f \ {key} |-> f[k]]

\* _is_rate_limited that never deletes the entry of a lockout that has run out
AfterRateLimitCheckKeep(fa, username, clock) == fa

\* _is_rate_limited: failed_attempts as it leaves them (the entry of a lockout
\* that has run out is deleted)
AfterRateLimitCheck(fa, username, clock) ==
    IF /\ username \in DOMAIN fa
       /\ ~(fa[username].count < MaxLoginAttempts)
       /\ clock - fa[username].last_attempt >= LoginTimeout
    THEN WithoutKey(fa, username)
    ELSE fa

\* _record_failed_attempt
RecordFailedAttempt(fa, username, clock) ==
    LET count == IF username \in DOMAIN fa THEN fa[username].count ELSE 0
    IN  [k \in DOMAIN fa \cup {username} |->
            IF k = username THEN [count |-> count + 1, last_attempt |-> clock]
            ELSE fa[k]]

\* _generate_session_token: the token string
GenerateSessionToken(username, clock) ==
    MakeToken(username, clock + SessionTimeout, ServerSecret)

\* _generate_session_token: the entry stored under the token in _class_sessions
SessionEntry(username, clock) ==
    [token |-> GenerateSessionToken(username, clock), username |-> username,
     created |-> clock, expiry |-> clock + SessionTimeout]

\* dict assignment _class_sessions[token] = entry
StoreSession(sessions, entry) ==
    {s \in sessions : s.token # entry.token} \cup {entry}

\* what authenticate returns; token is the empty set for None
AuthResult(ok, tokens, username, error) ==
    [op |-> "authenticate", success |-> ok, token |-> tokens,
     username |-> username, error |-> error]

\* authenticate(username, password)
Authenticate(username, password) ==
    /\ \/ Cardinality(active_sessions) < MaxSessions
       \/ GenerateSessionToken(username, now) \in {s.token : s \in active_sessions}
    /\ IF IsRateLimited(failed_attempts, username, now)
       THEN /\ result' = AuthResult(FALSE, {}, username, "Too many failed attempts")
            /\ UNCHANGED authVars
       ELSE LET fa == AfterRateLimitCheck(failed_attempts, username, now)
            IN  IF ~ValidateCredentials(username, password)
                THEN /\ failed_attempts' = RecordFailedAttempt(fa, username, now)
                     /\ result' = AuthResult(FALSE, {}, username,
                                             "Invalid username or password")
                     /\ UNCHANGED <<active_sessions, revoked_tokens>>
                ELSE /\ failed_attempts' = WithoutKey(fa, username)
                     /\ active_sessions' =
                            StoreSession(active_sessions, SessionEntry(username, now))
                     /\ result' = AuthResult(TRUE, {GenerateSessionToken(username, now)},
                                             username, "")
                     /\ UNCHANGED revoked_tokens
    /\ UNCHANGED <<now, nextId, reviewVars, mainVars, request, callers>>

\* the token strings clients present: every token the service issued or
\* revoked, and one signed with a key the server does not use
PresentedTokens ==
    {s.token : s \in active_sessions} \cup revoked_tokens
    \cup {MakeToken(AdminUsername, SessionTimeout, OtherSecret)}

\* validate_token(token): the call, recording what it returned
ValidateTokenCall(token) ==
    /\ result' = [op |-> "validate", token |-> token,
                  valid |-> ValidateToken(token, revoked_tokens, now),
                  username |-> TokenUsername(token)]
    /\ UNCHANGED <<now, nextId, reviewVars, authVars, mainVars, request, callers>>

\* revoke_token(token): the revocation set and the session store it leaves
RevokeToken(token, revoked, sessions) ==
    [revoked |-> revoked \cup {token},
     sessions |-> {s \in sessions : s.token # token}]

\* POST /admin/logout: verify_admin_token, then revoke_token
LogoutAdmin(authorization) ==
    /\ IF VerifyAdminToken(authorization, revoked_tokens, now)
       THEN LET after == RevokeToken(authorization.token, revoked_tokens,
                                     active_sessions)
            IN  /\ revoked_tokens' = after.revoked
                /\ active_sessions' = after.sessions
                /\ result' = [op |-> "logout", token |-> authorization.token,
                              success |-> TRUE]
       ELSE /\ result' = [op |-> "logout", token |-> authorization.token,
                          success |-> FALSE]
            /\ UNCHANGED <<active_sessions, revoked_tokens>>
    /\ UNCHANGED <<now, nextId, reviewVars, failed_attempts, mainVars, request,
                   callers>>

NextAuth ==
    \/ Elapse
    \/ \E u \in Usernames, p \in Passwords : Authenticate(u, p)
    \/ \E t \in PresentedTokens : ValidateTokenCall(t)
    \/ \E t \in PresentedTokens : LogoutAdmin(Bearer(t))
    \/ LogoutAdmin(NoHeader)

SpecAuth == Init /\ [][NextAuth]_vars

(***************************************************************************)
(* The feedback validators applied to one submission                        *)
(***************************************************************************)
\* the values of the optional fields of a submission
ConfidenceLevels == {NoneInt} \cup (1..5)
Expertises == {NoneStr, "beginner", "intermediate", "expert", "Expert"}

\* the submissions the validators are applied to
ValidatorInputs ==
    {Submission(url, label, comment, confidence, expertise) :
        url \in Urls, label \in {0, 1}, comment \in Comments,
        confidence \in ConfidenceLevels, expertise \in Expertises}

\* a submission has arrived and no validator has run yet
InitValidator ==
    /\ now = 0
    /\ nextId = 0
    /\ memPending = <<>>
    /\ filePending = <<>>
    /\ memReviewed = <<>>
    /\ fileReviewed = <<>>
    /\ memRejected = <<>>
    /\ fileRejected = <<>>
    /\ memDataset = <<>>
    /\ csvDataset = <<>>
    /\ adminDecisions = <<>>
    /\ memMetrics = ZeroMetrics
    /\ fileMetrics = ZeroMetrics
    /\ result = NoResult
    /\ failed_attempts = <<>>
    /\ active_sessions = {}
    /\ revoked_tokens = {}
    /\ validationFile = <<>>
    /\ feedbackFile = <<>>
    /\ feedbackDataset = <<>>
    /\ validatedDataset = <<>>
    /\ backgroundTasks = <<>>
    /\ \E sub \in ValidatorInputs :
           request = [endpoint |-> "feedback", authorization |-> NoHeader,
                      submission |-> sub]
    /\ callers = [c \in Callers |-> IdleCaller]

\* _run_automated_validation applied to the submission
RunValidation ==
    /\ request.endpoint = "feedback"
    /\ result' = [op |-> "run_automated_validation",
                  validation |-> RunAutomatedValidation(request.submission)]
    /\ UNCHANGED <<now, nextId, reviewVars, authVars, mainVars, request, callers>>

\* FeedbackValidator.validate_feedback of api/index.py; raised is TRUE when
\* the call ends in an AttributeError (comment.lower() on None)
IndexValidateFeedback(fd) ==
    LET confidence == IF TruthyInt(fd.confidence_level) THEN fd.confidence_level ELSE 3
        expertise == IF fd.user_expertise = NoneStr THEN "beginner" ELSE fd.user_expertise
        weight == CASE expertise = "expert" -> 40
                    [] expertise = "intermediate" -> 25
                    [] expertise = "beginner" -> 10
                    [] OTHER -> 10
        bad_url == UrlLen(fd.url) = 0 \/ UrlLen(fd.url) < 10
        spam == fd.user_comment.phrases
                    \cap {"buy now", "click here", "free money", "urgent"} # {}
        score == confidence * 20 + weight - (IF spam THEN 30 ELSE 0)
    IN  [raised |-> fd.user_comment.isNone,
         is_valid |-> ~bad_url,
         confidence_score |-> score,
         validation_notes |-> (IF bad_url THEN <<"Invalid URL format">> ELSE <<>>)
                              \o (IF spam THEN <<"Potential spam content detected">>
                                  ELSE <<>>),
         auto_approve |-> score >= 80 /\ ~bad_url]

\* submit_feedback of api/index.py: the validation status it answers with,
\* or HTTP 500 when the validator raised
IndexSubmitFeedback ==
    /\ request.endpoint = "feedback"
    /\ LET v == IndexValidateFeedback(request.submission)
       IN  result' =
               IF v.raised
               THEN [op |-> "index_submit_feedback", status_code |-> 500,
                     validation_status |-> NoneStr, confidence_score |-> 0,
                     validation_notes |-> <<>>]
               ELSE [op |-> "index_submit_feedback", status_code |-> 200,
                     validation_status |->
                         IF ~v.is_valid THEN "rejected"
                         ELSE IF v.auto_approve THEN "approved" ELSE "pending",
                     confidence_score |-> v.confidence_score,
                     validation_notes |-> v.validation_notes]
    /\ UNCHANGED <<now, nextId, reviewVars, authVars, mainVars, request, callers>>

NextValidator ==
    \/ RunValidation
    \/ IndexSubmitFeedback

SpecValidator == InitValidator /\ [][NextValidator]_vars

(***************************************************************************)
(* LightweightDetectionEngine: URL risk scoring                             *)
(***************************************************************************)
\* min(a, b)
Min(a, b) == IF a <= b THEN a ELSE b

\* self.legitimate_domains
LegitimateDomains ==
    {"google.com", "facebook.com", "microsoft.com", "apple.com",
     "amazon.com", "paypal.com", "netflix.com", "dropbox.com",
     "github.com", "linkedin.com", "twitter.com", "x.com",
     "instagram.com", "youtube.com", "wikipedia.org", "reddit.com",
     "stackoverflow.com", "yahoo.com", "bing.com", "live.com",
     "outlook.com", "office.com", "spotify.com", "twitch.tv",
     "adobe.com", "zoom.us", "slack.com", "notion.so",
     "chase.com", "wellsfargo.com", "bankofamerica.com",
     "ebay.com", "walmart.com", "target.com", "bestbuy.com"}

\* A scanned URL is its string, the root domain _get_root_domain gives for it
\* and the facts the checks read off it; PlainUrl has none of the features
\* the checks look for.
PlainUrl(url, root_domain) ==
    [url |-> url, root_domain |-> root_domain,
     parse_error |-> FALSE,       \* urllib.parse.urlparse(url) raises ValueError
     brand_in_domain |-> FALSE,   \* a brand name in the domain of another root
     brand_in_subdomain |-> FALSE,\* that brand outside the root domain
     typosquatting |-> FALSE,     \* a brand appears once 0 1 3 5 @ ! are decoded
     homograph |-> FALSE,         \* _char_match_ratio(brand, domain) > 0.75
     brand_hyphen |-> FALSE,      \* brand followed by - or _ in the domain
     brand_action |-> FALSE,      \* a brand_phishing_patterns regex matches
     keyword_hits |-> 0,          \* phishing keywords in path or query
     script_scheme |-> FALSE,     \* data: or javascript: scheme
     at_sign |-> FALSE,           \* @ after the first //
     double_slash |-> FALSE,      \* // in the path
     pct_encoded |-> 0,           \* number of %XX sequences
     url_len |-> 0,               \* len(url)
     subdomain_count |-> 0,       \* len(domain.split('.')) - 2
     https |-> TRUE,              \* url.startswith('https://')
     shortener |-> FALSE,         \* a shortener domain in the domain
     path_depth |-> 0,            \* non-empty path segments
     redirect_param |-> FALSE,    \* redirect, url, next, ... in the query
     bad_ext |-> FALSE,           \* .exe, .scr, .zip, ... in the path
     port |-> 0,                  \* the explicit port of the netloc, 0 for none
     unusual_port |-> FALSE,      \* ':' in domain with a port off the list; the
                                  \* domain is netloc.split(':')[0]
     suspicious_tld |-> FALSE,    \* domain ends with a suspicious TLD
     double_tld |-> FALSE,        \* .com.xx, .org.xx, .net.xx, .gov.xx
     is_ip |-> FALSE,             \* socket.inet_aton(domain) succeeds
     obfuscated_ip |-> FALSE]     \* 0x... or eight and more digits

\* the URLs the engine is run on
ScanUrls ==
    {[PlainUrl("https://www.google.com/", "google.com")
        EXCEPT !.url_len = 23, !.subdomain_count = 1],
      [PlainUrl("http://accounts.google.com/login/verify/account?redirect=home", "google.com")
        EXCEPT !.brand_action = TRUE, !.keyword_hits = 3, !.url_len = 61,
               !.subdomain_count = 1, !.https = FALSE, !.path_depth = 3,
               !.redirect_param = TRUE],
      [PlainUrl("http://payp4l-security.com/login", "payp4l-security.com")
        EXCEPT !.keyword_hits = 1, !.url_len = 32, !.https = FALSE,
               !.path_depth = 1],
      [PlainUrl("https://192.168.1.1/secure", "1.1")
        EXCEPT !.keyword_hits = 1, !.url_len = 26, !.subdomain_count = 2,
               !.path_depth = 1, !.is_ip = TRUE],
      [PlainUrl("http://192.168.1.1/login/verify/account", "1.1")
        EXCEPT !.keyword_hits = 3, !.url_len = 39, !.subdomain_count = 2,
               !.https = FALSE, !.path_depth = 3, !.is_ip = TRUE],
      [PlainUrl("http://paypal-secure.example.tk/login/verify/account/update/confirm?redirect=1", "example.tk")
        EXCEPT !.brand_in_domain = TRUE, !.brand_in_subdomain = TRUE,
               !.homograph = TRUE, !.brand_hyphen = TRUE,
               !.brand_action = TRUE, !.keyword_hits = 5, !.url_len = 78,
               !.subdomain_count = 1, !.https = FALSE, !.path_depth = 5,
               !.redirect_param = TRUE, !.suspicious_tld = TRUE],
      [PlainUrl("https://example.org/", "example.org")
        EXCEPT !.url_len = 20],
      [PlainUrl("http://example.org/login", "example.org")
        EXCEPT !.keyword_hits = 1, !.url_len = 24, !.https = FALSE,
               !.path_depth = 1],
      [PlainUrl("http://evil.com:8081/x", "evil.com")
        EXCEPT !.url_len = 22, !.https = FALSE, !.path_depth = 1,
               !.port = 8081],
      [PlainUrl("https://paypal.evil.com/", "evil.com")
        EXCEPT !.brand_in_domain = TRUE, !.brand_in_subdomain = TRUE,
               !.homograph = TRUE, !.url_len = 24, !.subdomain_count = 1],
      [PlainUrl("http://g00gle.com/", "g00gle.com")
        EXCEPT !.typosquatting = TRUE, !.url_len = 18, !.https = FALSE],
      [PlainUrl("https://paypal-login.com/", "paypal-login.com")
        EXCEPT !.brand_in_domain = TRUE, !.homograph = TRUE,
               !.brand_hyphen = TRUE, !.brand_action = TRUE, !.url_len = 25],
      [PlainUrl("https://example.com.tk/", "com.tk")
        EXCEPT !.url_len = 23, !.subdomain_count = 1,
               !.suspicious_tld = TRUE, !.double_tld = TRUE],
      [PlainUrl("http://[invalid", "") EXCEPT !.parse_error = TRUE] }

\* the ports _check_url_structure does not count as unusual
StandardPorts == {80, 443, 8080, 8443}

\* _check_domain_spoofing
CheckDomainSpoofing(u, is_known_legit) ==
    IF is_known_legit THEN 0
    ELSE Min((IF u.brand_in_domain
              THEN 12 + (IF u.brand_in_subdomain THEN 5 ELSE 0) ELSE 0)
             + (IF u.typosquatting THEN 15 ELSE 0)
             + (IF u.homograph THEN 8 ELSE 0)
             + (IF u.brand_hyphen THEN 10 ELSE 0), 20)

\* _check_suspicious_patterns
CheckUrlSuspiciousPatterns(u) ==
    Min((IF u.brand_action THEN 10 ELSE 0)
        + (IF u.keyword_hits >= 3 THEN 10
           ELSE IF u.keyword_hits >= 2 THEN 6
           ELSE IF u.keyword_hits >= 1 THEN 3 ELSE 0)
        + (IF u.script_scheme THEN 15 ELSE 0)
        + (IF u.at_sign THEN 10 ELSE 0)
        + (IF u.double_slash THEN 5 ELSE 0)
        + (IF u.pct_encoded > 5 THEN 5 ELSE 0), 20)

\* _check_url_structure
CheckUrlStructure(u) ==
    Min((IF u.url_len > 200 THEN 5 ELSE IF u.url_len > 100 THEN 2 ELSE 0)
        + (IF u.subdomain_count >= 4 THEN 8
           ELSE IF u.subdomain_count >= 3 THEN 5
           ELSE IF u.subdomain_count >= 2 THEN 2 ELSE 0)
        + (IF ~u.https THEN 4 ELSE 0)
        + (IF u.shortener THEN 5 ELSE 0)
        + (IF u.path_depth >= 5 THEN 4 ELSE IF u.path_depth >= 3 THEN 2 ELSE 0)
        + (IF u.redirect_param THEN 3 ELSE 0)
        + (IF u.bad_ext THEN 6 ELSE 0)
        + (IF u.unusual_port THEN 4 ELSE 0), 15)

\* _check_suspicious_tld
CheckSuspiciousTld(u) ==
    IF u.suspicious_tld THEN 12 ELSE IF u.double_tld THEN 8 ELSE 0

\* _check_ip_address
CheckIpAddress(u) == IF u.is_ip \/ u.obfuscated_ip THEN 15 ELSE 0

\* heuristic_scores as the checks fill it
HeuristicScores(u, is_known_legit) ==
    [domain_spoofing |-> CheckDomainSpoofing(u, is_known_legit),
     suspicious_patterns |-> CheckUrlSuspiciousPatterns(u),
     url_structure |-> CheckUrlStructure(u),
     suspicious_tld |-> CheckSuspiciousTld(u),
     ip_address |-> CheckIpAddress(u)]

\* sum(heuristic_scores.values())
SumScores(scores) ==
    scores.domain_spoofing + scores.suspicious_patterns + scores.url_structure
    + scores.suspicious_tld + scores.ip_address

\* the sum of the sub-scores without the cap
HeuristicScoreUncapped(scores) == SumScores(scores)

\* heuristic_score: the sum of the sub-scores capped at 40
HeuristicScore(scores) == Min(SumScores(scores), 40)

\* the reduction for known-legitimate domains left out
KeepScores(scores, is_known_legit) == scores

\* the reduction for known-legitimate domains: every sub-score becomes 0
ReduceKnownLegit(scores, is_known_legit) ==
    IF is_known_legit
    THEN [domain_spoofing |-> 0, suspicious_patterns |-> 0, url_structure |-> 0,
          suspicious_tld |-> 0, ip_address |-> 0]
    ELSE scores

\* A score with a fractional part is the fraction num / den, den > 0.
Fraction(num, den) == [num |-> num, den |-> den]

\* What the reputation lookup does: requests.get raises (a timeout, a
\* connection error), or answers with a status code and a JSON body.
LookupRaises(kind) ==
    [kind |-> kind, status_code |-> 0, response_code |-> 0, positives |-> 0,
     total |-> 1]
LookupAnswers(status_code, response_code, positives, total) ==
    [kind |-> "response", status_code |-> status_code,
     response_code |-> response_code, positives |-> positives, total |-> total]

\* the lookups the engine meets
Lookups ==
    { LookupRaises("timeout"),
      LookupRaises("connection_error"),
      LookupAnswers(403, 1, 5, 10),
      LookupAnswers(200, 0, 5, 10),
      LookupAnswers(200, 1, 0, 70),
      LookupAnswers(200, 1, 3, 0),
      LookupAnswers(200, 1, 1, 50),
      LookupAnswers(200, 1, 1, 10),
      LookupAnswers(200, 1, 3, 25),
      LookupAnswers(200, 1, 3, 20),
      LookupAnswers(200, 1, 1, 2),
      LookupAnswers(200, 1, 7, 7) }

\* _check_virustotal reading the counts of any answer
CheckVirusTotalAnyAnswer(api_key, vt) ==
    IF ~api_key THEN Fraction(0, 1)
    ELSE IF vt.kind # "response" THEN Fraction(0, 1)
    ELSE IF vt.positives > 0
         THEN IF vt.total = 0 THEN Fraction(0, 1)
              ELSE IF vt.positives * 20 >= 20 * vt.total THEN Fraction(20, 1)
              ELSE Fraction(vt.positives * 20, vt.total)
         ELSE Fraction(0, 1)

\* _check_virustotal: (positives / total) * 20 capped at 20; 0 without a key,
\* when requests.get raises, on another status than 200, on an unknown
\* resource and when the division by total raises
CheckVirusTotal(api_key, vt) ==
    IF ~api_key THEN Fraction(0, 1)
    ELSE IF vt.kind # "response" THEN Fraction(0, 1)
    ELSE IF vt.status_code = 200 /\ vt.response_code = 1 /\ vt.positives > 0
         THEN IF vt.total = 0 THEN Fraction(0, 1)
              ELSE IF vt.positives * 20 >= 20 * vt.total THEN Fraction(20, 1)
              ELSE Fraction(vt.positives * 20, vt.total)
         ELSE Fraction(0, 1)

\* round(n / d) of Python: to the nearest integer, a tie to the even one
Round(n, d) ==
    LET q == n \div d
        r == n % d
    IN  IF 2 * r < d THEN q
        ELSE IF 2 * r > d THEN q + 1
        ELSE IF q % 2 = 0 THEN q ELSE q + 1

\* final_score = min(round(raw_score / 60 * 100), 100)
FinalScore(heuristic_score, api_score) ==
    Min(Round((heuristic_score * api_score.den + api_score.num) * 100,
              60 * api_score.den), 100)

\* the classification with the thresholds taken strictly
ClassifyAbove(final_score) ==
    IF final_score > 60 THEN "phishing"
    ELSE IF final_score > 35 THEN "suspicious" ELSE "legitimate"

\* classification by final_score
Classify(final_score) ==
    IF final_score >= 60 THEN "phishing"
    ELSE IF final_score >= 35 THEN "suspicious" ELSE "legitimate"

\* what analyze_url returns
AnalyzeUrlResult(u, api_key, vt) ==
    IF u.parse_error
    THEN [op |-> "analyze_url", success |-> FALSE, url |-> u.url]
    ELSE LET is_known_legit == u.root_domain \in LegitimateDomains
             heuristic_scores ==
                 ReduceKnownLegit(HeuristicScores(u, is_known_legit), is_known_legit)
             heuristic_score == HeuristicScore(heuristic_scores)
             api_score == IF api_key THEN CheckVirusTotal(api_key, vt)
                          ELSE Fraction(0, 1)
             final_score == FinalScore(heuristic_score, api_score)
         IN  [op |-> "analyze_url", success |-> TRUE, url |-> u.url,
              heuristic_breakdown |-> heuristic_scores,
              heuristic_score |-> heuristic_score,
              api_score |-> api_score,
              final_score |-> final_score,
              classification |-> Classify(final_score),
              is_known_legitimate |-> is_known_legit]

\* the scan requests: a URL, whether an API key is configured, and what the
\* reputation lookup would do
ScanRequests ==
    {[endpoint |-> "scan", authorization |-> NoHeader, url |-> u,
      api_key |-> FALSE, lookup |-> LookupRaises("timeout")] : u \in ScanUrls}
    \cup {[endpoint |-> "scan", authorization |-> NoHeader, url |-> u,
           api_key |-> TRUE, lookup |-> vt] : u \in ScanUrls, vt \in Lookups}

\* a scan request has arrived
InitScan ==
    /\ now = 0
    /\ nextId = 0
    /\ memPending = <<>>
    /\ filePending = <<>>
    /\ memReviewed = <<>>
    /\ fileReviewed = <<>>
    /\ memRejected = <<>>
    /\ fileRejected = <<>>
    /\ memDataset = <<>>
    /\ csvDataset = <<>>
    /\ adminDecisions = <<>>
    /\ memMetrics = ZeroMetrics
    /\ fileMetrics = ZeroMetrics
    /\ result = NoResult
    /\ failed_attempts = <<>>
    /\ active_sessions = {}
    /\ revoked_tokens = {}
    /\ validationFile = <<>>
    /\ feedbackFile = <<>>
    /\ feedbackDataset = <<>>
    /\ validatedDataset = <<>>
    /\ backgroundTasks = <<>>
    /\ request \in ScanRequests
    /\ callers = [c \in Callers |-> IdleCaller]

\* analyze_url(url)
AnalyzeUrl ==
    /\ request.endpoint = "scan"
    /\ result' = AnalyzeUrlResult(request.url, request.api_key, request.lookup)
    /\ UNCHANGED <<now, nextId, reviewVars, authVars, mainVars, request, callers>>

\* POST /api/scan-url of api/index.py: the response built from the fields of
\* what analyze_url returned, HTTP 500 when a field is missing (KeyError)
ScanUrlResponse(analysis) ==
    IF ~analysis.success
    THEN [op |-> "scan_url", status_code |-> 500, url |-> analysis.url]
    ELSE [op |-> "scan_url", status_code |-> 200, url |-> analysis.url,
          heuristic_breakdown |-> analysis.heuristic_breakdown,
          heuristic_score |-> analysis.heuristic_score,
          api_score |-> analysis.api_score,
          final_score |-> analysis.final_score,
          classification |-> analysis.classification]

\* scan_url(request)
ScanUrl ==
    /\ request.endpoint = "scan"
    /\ result' = ScanUrlResponse(AnalyzeUrlResult(request.url, request.api_key,
                                                  request.lookup))
    /\ UNCHANGED <<now, nextId, reviewVars, authVars, mainVars, request, callers>>

NextScan ==
    \/ AnalyzeUrl
    \/ ScanUrl

SpecScan == InitScan /\ [][NextScan]_vars

(***************************************************************************)
(* HybridDetectionEngine: heuristic, ML and threat-intelligence scores      *)
(***************************************************************************)
\* A URL the hybrid engine analyses is its string and the facts the analyzers
\* read off it: len(url), url.count('-'), whether the IP pattern matches, the
\* suspicious keywords found, whether urlparse raises, len(netloc.split('.'))
\* - 2, whether the netloc ends with a suspicious TLD, the phishing patterns
\* that match, the scheme, the characters of 1234567890!@#$%^&*-_ and
\* whether bit.ly, .tk, .ml, .ga or .cf occurs in the URL.
HybridUrls ==
  {
    [url |-> "https://example.org/",
     url_len |-> 20, hyphen_count |-> 0, ip_presence |-> FALSE,
     keyword_count |-> 0, parse_error |-> FALSE, subdomain_count |-> 0,
     suspicious_tld |-> FALSE, pattern_count |-> 0, scheme |-> "https",
     suspicious_chars |-> 0, suspicious_domain |-> FALSE],
    [url |-> "https://www.paypal.com",
     url_len |-> 22, hyphen_count |-> 0, ip_presence |-> FALSE,
     keyword_count |-> 1, parse_error |-> FALSE, subdomain_count |-> 1,
     suspicious_tld |-> FALSE, pattern_count |-> 0, scheme |-> "https",
     suspicious_chars |-> 0, suspicious_domain |-> FALSE],
    [url |-> "http://payp4l-security.com/login",
     url_len |-> 32, hyphen_count |-> 1, ip_presence |-> FALSE,
     keyword_count |-> 1, parse_error |-> FALSE, subdomain_count |-> 0,
     suspicious_tld |-> FALSE, pattern_count |-> 0, scheme |-> "http",
     suspicious_chars |-> 2, suspicious_domain |-> FALSE],
    [url |-> "https://192.168.1.1/secure",
     url_len |-> 26, hyphen_count |-> 0, ip_presence |-> TRUE,
     keyword_count |-> 1, parse_error |-> FALSE, subdomain_count |-> 2,
     suspicious_tld |-> FALSE, pattern_count |-> 1, scheme |-> "https",
     suspicious_chars |-> 8, suspicious_domain |-> FALSE],
    [url |-> "http://payp4l-security.com/verify",
     url_len |-> 33, hyphen_count |-> 1, ip_presence |-> FALSE,
     keyword_count |-> 1, parse_error |-> FALSE, subdomain_count |-> 0,
     suspicious_tld |-> FALSE, pattern_count |-> 0, scheme |-> "http",
     suspicious_chars |-> 2, suspicious_domain |-> FALSE],
    [url |-> "https://192.168.1.100/login",
     url_len |-> 27, hyphen_count |-> 0, ip_presence |-> TRUE,
     keyword_count |-> 1, parse_error |-> FALSE, subdomain_count |-> 2,
     suspicious_tld |-> FALSE, pattern_count |-> 1, scheme |-> "https",
     suspicious_chars |-> 10, suspicious_domain |-> FALSE],
    [url |-> "http://g00gle-verify.suspicious-domain.tk/update",
     url_len |-> 48, hyphen_count |-> 2, ip_presence |-> FALSE,
     keyword_count |-> 2, parse_error |-> FALSE, subdomain_count |-> 1,
     suspicious_tld |-> TRUE, pattern_count |-> 0, scheme |-> "http",
     suspicious_chars |-> 4, suspicious_domain |-> TRUE],
    [url |-> "ftp://files.example.org/pub",
     url_len |-> 27, hyphen_count |-> 0, ip_presence |-> FALSE,
     keyword_count |-> 0, parse_error |-> FALSE, subdomain_count |-> 1,
     suspicious_tld |-> FALSE, pattern_count |-> 0, scheme |-> "other",
     suspicious_chars |-> 0, suspicious_domain |-> FALSE],
    [url |-> "http://[invalid",
     url_len |-> 15, hyphen_count |-> 0, ip_presence |-> FALSE,
     keyword_count |-> 0, parse_error |-> TRUE, subdomain_count |-> 0,
     suspicious_tld |-> FALSE, pattern_count |-> 0, scheme |-> "http",
     suspicious_chars |-> 0, suspicious_domain |-> FALSE],
    [url |-> "http://secure-login-verify-account-update-paypal.a.b.c.d.evil.tk/...",
     url_len |-> 168, hyphen_count |-> 7, ip_presence |-> TRUE,
     keyword_count |-> 9, parse_error |-> FALSE, subdomain_count |-> 5,
     suspicious_tld |-> TRUE, pattern_count |-> 4, scheme |-> "http",
     suspicious_chars |-> 22, suspicious_domain |-> TRUE] }

\* An individual score, between 0 and 1 in the code, is kept as 30 times its
\* value, a weight as 20 times its value.
\* analyze_url_length
AnalyzeUrlLength(u) ==
    IF u.url_len < 30 THEN 0
    ELSE IF u.url_len < 75 THEN 6
    ELSE IF u.url_len < 150 THEN 15 ELSE 30

\* analyze_hyphen_count: min(hyphen_count / 5.0, 1.0)
AnalyzeHyphenCount(u) == Min(6 * u.hyphen_count, 30)

\* analyze_ip_presence
AnalyzeIpPresence(u) == IF u.ip_presence THEN 30 ELSE 0

\* analyze_suspicious_keywords: min(keyword_count / 3.0, 1.0)
AnalyzeSuspiciousKeywords(u) == Min(10 * u.keyword_count, 30)

\* analyze_subdomain_depth: 0.5 when urlparse raises
AnalyzeSubdomainDepth(u) ==
    IF u.parse_error THEN 15
    ELSE IF u.subdomain_count <= 1 THEN 0
    ELSE IF u.subdomain_count <= 3 THEN 9 ELSE 24

\* analyze_suspicious_tld: 0.0 when urlparse raises
AnalyzeSuspiciousTld(u) ==
    IF u.parse_error THEN 0 ELSE IF u.suspicious_tld THEN 24 ELSE 0

\* analyze_phishing_patterns: min(pattern_count / 2.0, 1.0)
AnalyzePhishingPatterns(u) == Min(15 * u.pattern_count, 30)

\* analyze_https_usage
AnalyzeHttpsUsage(u) ==
    IF u.scheme = "https" THEN 0 ELSE IF u.scheme = "http" THEN 9 ELSE 15

\* scores of calculate_heuristic_score
IndividualScores(u) ==
    [url_length |-> AnalyzeUrlLength(u),
     hyphen_count |-> AnalyzeHyphenCount(u),
     ip_presence |-> AnalyzeIpPresence(u),
     suspicious_keywords |-> AnalyzeSuspiciousKeywords(u),
     subdomain_depth |-> AnalyzeSubdomainDepth(u),
     suspicious_tld |-> AnalyzeSuspiciousTld(u),
     phishing_patterns |-> AnalyzePhishingPatterns(u),
     https_usage |-> AnalyzeHttpsUsage(u)]

\* weights of calculate_heuristic_score: 0.1, 0.15, 0.2, 0.2, 0.1, 0.1, 0.1, 0.05
HeuristicWeights ==
    [url_length |-> 2, hyphen_count |-> 3, ip_presence |-> 4,
     suspicious_keywords |-> 4, subdomain_depth |-> 2, suspicious_tld |-> 2,
     phishing_patterns |-> 2, https_usage |-> 1]

\* weighted_score = sum(scores[key] * weights[key]), 600 times its value
WeightedScore(scores) ==
    scores.url_length * HeuristicWeights.url_length
    + scores.hyphen_count * HeuristicWeights.hyphen_count
    + scores.ip_presence * HeuristicWeights.ip_presence
    + scores.suspicious_keywords * HeuristicWeights.suspicious_keywords
    + scores.subdomain_depth * HeuristicWeights.subdomain_depth
    + scores.suspicious_tld * HeuristicWeights.suspicious_tld
    + scores.phishing_patterns * HeuristicWeights.phishing_patterns
    + scores.https_usage * HeuristicWeights.https_usage

\* heuristic_score of calculate_heuristic_score: weighted_score * 40
HybridHeuristicScore(u) == Fraction(WeightedScore(IndividualScores(u)), 15)

\* What the ML predictor is: no model loaded (the fallback prediction), a
\* model whose predict raises (the fallback again), or a model answering with
\* a probability.
MlFallback == [kind |-> "fallback", probability |-> Fraction(0, 1)]
MlRaises == [kind |-> "model_raises", probability |-> Fraction(0, 1)]
MlModel(num, den) == [kind |-> "model", probability |-> Fraction(num, den)]
MlPredictors ==
    {MlFallback, MlRaises, MlModel(0, 4), MlModel(1, 4), MlModel(2, 4),
     MlModel(3, 4), MlModel(4, 4)}

\* probability of _fallback_prediction, 400 times its value:
\* suspicious_chars * 0.3 + domain_suspicious * 0.4 + length_suspicious * 0.2
\* + ip_based * 0.5, brought into 0..1
FallbackProbability(u) ==
    Min(6 * Min(u.suspicious_chars, 20)
        + (IF u.suspicious_domain THEN 160 ELSE 0)
        + (IF u.url_len > 80 THEN 80 ELSE u.url_len)
        + (IF u.ip_presence THEN 200 ELSE 0), 400)

\* ml_score of MLPredictor.predict: probability * 40
MlPredict(u, ml) ==
    IF ml.kind = "model"
    THEN Fraction(ml.probability.num * 40, ml.probability.den)
    ELSE Fraction(FallbackProbability(u), 10)

\* What the two VirusTotal requests do: one of them raises, or they answer
\* with their status codes and the report with its JSON body.
VtRaises == [kind |-> "raises", scan_status |-> 0, report_status |-> 0,
             response_code |-> 0, positives |-> 0, total |-> 1]
VtAnswers(scan_status, report_status, response_code, positives, total) ==
    [kind |-> "response", scan_status |-> scan_status,
     report_status |-> report_status, response_code |-> response_code,
     positives |-> positives, total |-> total]
VtLookups ==
    { VtRaises,
      VtAnswers(403, 0, 0, 0, 1),
      VtAnswers(200, 204, 0, 0, 1),
      VtAnswers(200, 200, 0, 5, 10),
      VtAnswers(200, 200, 1, 0, 70),
      VtAnswers(200, 200, 1, 3, 0),
      VtAnswers(200, 200, 1, 7, 70),
      VtAnswers(200, 200, 1, 70, 70) }

\* api_score of VirusTotalAPI.scan_url: min(detection_ratio * 20, 20)
VirusTotalScanUrl(api_key, vt) ==
    IF ~api_key THEN Fraction(0, 1)
    ELSE IF vt.kind # "response" THEN Fraction(0, 1)
    ELSE IF vt.scan_status = 200 /\ vt.report_status = 200 /\ vt.response_code = 1
         THEN IF vt.total > 0
              THEN IF vt.positives * 20 >= 20 * vt.total THEN Fraction(20, 1)
                   ELSE Fraction(vt.positives * 20, vt.total)
              ELSE Fraction(0, 1)
         ELSE Fraction(0, 1)

\* a + b + c of three fractions
Sum3(a, b, c) ==
    Fraction(a.num * b.den * c.den + b.num * a.den * c.den + c.num * a.den * b.den,
             a.den * b.den * c.den)

\* the classification with the thresholds taken strictly
HybridClassifyBelow(final_score) ==
    IF final_score.num < 30 * final_score.den THEN "Safe"
    ELSE IF final_score.num < 60 * final_score.den THEN "Suspicious"
    ELSE "Phishing"

\* classification of HybridDetectionEngine.analyze_url
HybridClassify(final_score) ==
    IF final_score.num <= 30 * final_score.den THEN "Safe"
    ELSE IF final_score.num <= 60 * final_score.den THEN "Suspicious"
    ELSE "Phishing"

\* what HybridDetectionEngine.analyze_url returns
HybridAnalyzeUrlResult(u, api_key, vt, ml) ==
    LET heuristic_score == HybridHeuristicScore(u)
        ml_score == MlPredict(u, ml)
        api_score == VirusTotalScanUrl(api_key, vt)
        final_score == Sum3(heuristic_score, ml_score, api_score)
    IN  [op |-> "hybrid_analyze_url", url |-> u.url,
         heuristic_score |-> heuristic_score,
         ml_score |-> ml_score,
         api_score |-> api_score,
         final_score |-> final_score,
         classification |-> HybridClassify(final_score)]

\* the calls made to the hybrid engine
HybridRequests ==
    {[endpoint |-> "hybrid", authorization |-> NoHeader, url |-> u,
      api_key |-> FALSE, lookup |-> VtRaises, ml |-> ml] :
        u \in HybridUrls, ml \in MlPredictors}
    \cup {[endpoint |-> "hybrid", authorization |-> NoHeader, url |-> u,
           api_key |-> TRUE, lookup |-> vt, ml |-> ml] :
             u \in HybridUrls, vt \in VtLookups, ml \in MlPredictors}

\* a URL is about to be analysed by the hybrid engine
InitHybrid ==
    /\ now = 0
    /\ nextId = 0
    /\ memPending = <<>>
    /\ filePending = <<>>
    /\ memReviewed = <<>>
    /\ fileReviewed = <<>>
    /\ memRejected = <<>>
    /\ fileRejected = <<>>
    /\ memDataset = <<>>
    /\ csvDataset = <<>>
    /\ adminDecisions = <<>>
    /\ memMetrics = ZeroMetrics
    /\ fileMetrics = ZeroMetrics
    /\ result = NoResult
    /\ failed_attempts = <<>>
    /\ active_sessions = {}
    /\ revoked_tokens = {}
    /\ validationFile = <<>>
    /\ feedbackFile = <<>>
    /\ feedbackDataset = <<>>
    /\ validatedDataset = <<>>
    /\ backgroundTasks = <<>>
    /\ request \in HybridRequests
    /\ callers = [c \in Callers |-> IdleCaller]

\* HeuristicAnalyzer.calculate_heuristic_score(url)
CalculateHeuristicScore ==
    /\ request.endpoint = "hybrid"
    /\ result' = [op |-> "calculate_heuristic_score", url |-> request.url.url,
                  individual_scores |-> IndividualScores(request.url),
                  heuristic_score |-> HybridHeuristicScore(request.url)]
    /\ UNCHANGED <<now, nextId, reviewVars, authVars, mainVars, request, callers>>

\* HybridDetectionEngine.analyze_url(url)
HybridAnalyzeUrl ==
    /\ request.endpoint = "hybrid"
    /\ result' = HybridAnalyzeUrlResult(request.url, request.api_key,
                                        request.lookup, request.ml)
    /\ UNCHANGED <<now, nextId, reviewVars, authVars, mainVars, request, callers>>

NextHybrid ==
    \/ CalculateHeuristicScore
    \/ HybridAnalyzeUrl

SpecHybrid == InitHybrid /\ [][NextHybrid]_vars

(***************************************************************************)
(* Properties                                                               *)
(***************************************************************************)
\* every copy of a feedback record the review system holds
AllRecords ==
    Range(memPending) \cup Range(filePending) \cup Range(memReviewed)
    \cup Range(fileReviewed) \cup Range(memRejected) \cup Range(fileRejected)
    \cup {adminDecisions[k].original_feedback : k \in 1..Len(adminDecisions)}

\* the record was left pending or flagged, not auto-approved, by its submission
OpenAtSubmission(id) ==
    \E fb \in AllRecords : fb.feedback_id = id /\ fb.auto_decision = NoneStr

\* how often the record was stored as approved or rejected
TimesDecided(id) ==
    Cardinality({k \in 1..Len(memReviewed) : memReviewed[k].feedback_id = id})
    + Cardinality({k \in 1..Len(memRejected) : memRejected[k].feedback_id = id})

\* C1: when two concurrent admin_review_feedback calls for the same open
\* feedback id have both returned, exactly one of them reports success, the
\* other reports "Feedback not found", and the record was decided at most once.
C1_ExactlyOneConcurrentDecision ==
    LET a == callers["c1"]
        b == callers["c2"]
    IN  (/\ a.pc = "done"
         /\ b.pc = "done"
         /\ a.feedback_id = b.feedback_id
         /\ OpenAtSubmission(a.feedback_id))
        => /\ a.ret.success # b.ret.success
           /\ \A c \in Callers :
                  ~callers[c].ret.success => callers[c].ret.message = <<"Feedback not found">>
           /\ TimesDecided(a.feedback_id) <= 1

\* the record of main.py's validation file carries an admin decision
AdminDecidedMain(id) ==
    \E k \in 1..Len(validationFile) :
        /\ validationFile[k].feedback_id = id
        /\ \/ validationFile[k].approved_timestamp # NoneInt
           \/ validationFile[k].rejected_timestamp # NoneInt

\* C2: a decision attempt on a feedback id that an admin has already
\* approved or rejected is refused and leaves the record, the datasets and
\* the queued corpus insertions unchanged.
C2_DecisionIdempotent ==
    [][\A id \in FeedbackIds :
          (/\ AdminDecidedMain(id)
           /\ \/ \E h \in RequestHeaders : MainApproveFeedback(id, h)
              \/ \E h \in RequestHeaders, r \in RejectionReasons :
                     MainRejectFeedback(id, r, h))
          => (~result'.success /\ UNCHANGED mainVars)]_vars

\* C3: a successful admin_review_feedback call acted on a record whose status
\* was pending or flagged; an auto_approved record is never decided.
C3_OnlyOpenRecordsDecided ==
    [][\A id \in FeedbackIds, d \in Decisions, c \in AdminComments, a \in AdminIds :
          (AdminReviewFeedback(id, d, c, a) /\ result'.success)
          => OpenStatus(LookupFeedback(filePending, memPending, id).item)]_vars

\* the urls of a dataset
DatasetUrls(ds) == {ds[k].url : k \in 1..Len(ds)}

\* C4: every record whose status is auto_approved or approved has an entry
\* for its url in the corpus (the memory dataset and the CSV dataset).
C4_ApprovedRecordsInCorpus ==
    \A fb \in Range(memPending) \cup Range(filePending) \cup Range(memReviewed)
              \cup Range(fileReviewed) :
        fb.status \in {AUTO_APPROVED, APPROVED}
        => fb.url \in DatasetUrls(memDataset) /\ fb.url \in DatasetUrls(csvDataset)

\* C5: every entry of a training dataset comes from a record whose status is
\* approved: the entries of the review system's datasets and of
\* validated_dataset.csv name such a record, the entries of
\* feedback_dataset.csv carry the url and label of one.
C5_CorpusOnlyFromApproved ==
    /\ \A e \in Range(memDataset) \cup Range(csvDataset) :
           \E fb \in Range(memReviewed) :
               fb.feedback_id = e.feedback_id /\ fb.status = APPROVED
    /\ \A e \in Range(validatedDataset) :
           \E k \in 1..Len(validationFile) :
               /\ validationFile[k].feedback_id = e.feedback_id
               /\ validationFile[k].validation_status = "approved"
    /\ \A e \in Range(feedbackDataset) :
           \E k \in 1..Len(validationFile) :
               /\ validationFile[k].url = e.url
               /\ validationFile[k].correct_label = e.label
               /\ validationFile[k].validation_status = "approved"

\* no url occurs twice in the dataset
UniqueUrls(ds) == \A j, k \in 1..Len(ds) : ds[j].url = ds[k].url => j = k

BestApproved(url) ==
    LET ks == {k \in 1..Len(memReviewed) : memReviewed[k].url = url}
    IN  CHOOSE k \in ks :
            \A j \in ks :
                \/ memReviewed[j].validation_score < memReviewed[k].validation_score
                \/ (memReviewed[j].validation_score = memReviewed[k].validation_score
                    /\ j <= k)

\* C7: for every url the corpus entry is the approved record with the higher
\* validation score, the most recent one on equal scores.
C7_HigherScoreRetained ==
    \A e \in Range(memDataset) \cup Range(csvDataset) :
        e.feedback_id = memReviewed[BestApproved(e.url)].feedback_id

\* the log keeps what it held and only grows at its end
AppendOnly(old, new) == Len(new) >= Len(old) /\ SubSeq(new, 1, Len(old)) = old

C10_AdminOperationsNeedToken ==
    [][\A id \in FeedbackIds, h \in RequestHeaders :
          (/\ ~VerifyAdminToken(h, revoked_tokens, now)
           /\ \/ MainApproveFeedback(id, h)
              \/ \E r \in RejectionReasons : MainRejectFeedback(id, r, h))
          => UNCHANGED mainVars]_vars

\* C11: validate_token rejects a token of the revocation set even before its
\* expiry, rejects a token whose expiry lies in the past even if it was never
\* revoked, and no login, logout or validation takes a token out of the
\* revocation set.
C11_RevokedOrExpiredRejected ==
    [][/\ revoked_tokens \subseteq revoked_tokens'
       /\ \A t \in PresentedTokens :
              (/\ ValidateTokenCall(t)
               /\ (t \in revoked_tokens \/ now > TokenExpiry(t)))
              => ~result'.valid]_vars

\* a token revoked before its expiry is refused while a later login's session
\* is open
C11_Witness ==
    /\ result.op = "validate"
    /\ result.token \in revoked_tokens
    /\ ~(now > TokenExpiry(result.token))
    /\ ~result.valid
    /\ active_sessions # {}

\* C12: the token a successful authenticate call returned validates, up to
\* its expiry, from the token alone and names the user who logged in,
\* whatever logins and logouts came before.
C12_FreshTokenValidates ==
    (result.op = "authenticate" /\ result.success)
    => \A t \in result.token :
           ~(now > TokenExpiry(t))
           => /\ ValidateToken(t, revoked_tokens, now)
              /\ TokenUsername(t) = result.username

C14_LockoutUntilTimeout ==
    [][\A u \in Usernames, p \in Passwords :
          (/\ Authenticate(u, p)
           /\ u \in DOMAIN failed_attempts
           /\ failed_attempts[u].count >= MaxLoginAttempts)
          => IF now - failed_attempts[u].last_attempt < LoginTimeout
             THEN /\ ~result'.success
                  /\ result'.token = {}
                  /\ UNCHANGED authVars
             ELSE ValidateCredentials(u, p) => result'.success]_vars

\* the admin is refused one second before the lockout runs out
C14_Witness ==
    /\ result.op = "authenticate"
    /\ result.username = AdminUsername
    /\ result.error = "Too many failed attempts"
    /\ AdminUsername \in DOMAIN failed_attempts
    /\ failed_attempts[AdminUsername].count = MaxLoginAttempts
    /\ failed_attempts[AdminUsername].last_attempt = 0
    /\ now = LoginTimeout - 1

\* C15: a submission with confidence 5, expertise expert, no spam phrase, a
\* valid URL and no contradiction gets a validation score of at least 80 and
\* the status auto_approved, whatever its comment, an absent one included.
C15_ExpertConfidentAutoApproved ==
    (/\ result.op = "run_automated_validation"
     /\ request.submission.confidence_level = 5
     /\ request.submission.user_expertise = "expert"
     /\ request.submission.user_comment.phrases
            \cap (SpamKeywords \cup SpamIndicators) = {}
     /\ IsValidUrl(request.submission.url)
     /\ ~CheckContradictions(request.submission))
    => /\ result.validation.validation_score >= 80
       /\ result.validation.status = AUTO_APPROVED

C17_RoutingRule ==
    /\ result.op = "run_automated_validation"
       => LET v == result.validation
          IN  v.status =
                  IF v.validation_score >= 80 /\ Len(v.flags) = 0 THEN AUTO_APPROVED
                  ELSE IF Len(v.flags) > 2 \/ "suspicious_pattern" \in Range(v.flags)
                       THEN FLAGGED
                       ELSE PENDING
    /\ (result.op = "index_submit_feedback" /\ result.status_code = 200)
       => LET notes == result.validation_notes
          IN  result.validation_status =
                  IF result.confidence_score >= 80 /\ Len(notes) = 0 THEN "approved"
                  ELSE IF \/ Len(notes) > 2
                          \/ "Potential spam content detected" \in Range(notes)
                       THEN FLAGGED
                       ELSE PENDING

\* C18: the final score of an analysed URL is an integer in 0..100 and the
\* classification is phishing exactly from 60 up, suspicious exactly from 35
\* to 59 and legitimate exactly below 35.
C18_ScoreRangeAndThresholds ==
    (result.op = "analyze_url" /\ result.success)
    => /\ result.final_score \in 0..100
       /\ result.classification = "phishing" <=> result.final_score >= 60
       /\ result.classification = "suspicious"
              <=> (35 <= result.final_score /\ result.final_score < 60)
       /\ result.classification = "legitimate" <=> result.final_score < 35

\* a URL scored exactly 60 is classified phishing
C18_Witness ==
    /\ result.op = "analyze_url"
    /\ result.success
    /\ result.final_score = 60
    /\ result.classification = "phishing"

\* C19: for a URL whose root domain is on the legitimate allowlist the
\* sub-scores suspicious_patterns, url_structure, suspicious_tld and
\* ip_address are 0, whatever its path, query, scheme and subdomains.
C19_AllowlistZeroesSubScores ==
    (/\ result.op = "analyze_url"
     /\ result.success
     /\ request.url.root_domain \in LegitimateDomains)
    => /\ result.heuristic_breakdown.suspicious_patterns = 0
       /\ result.heuristic_breakdown.url_structure = 0
       /\ result.heuristic_breakdown.suspicious_tld = 0
       /\ result.heuristic_breakdown.ip_address = 0

\* a google.com URL over http with phishing keywords in its path and a
\* redirect parameter has been analysed
C19_Witness ==
    /\ result.op = "analyze_url"
    /\ result.success
    /\ request.url.root_domain = "google.com"
    /\ ~request.url.https
    /\ request.url.keyword_hits >= 3
    /\ request.url.redirect_param
    /\ CheckUrlSuspiciousPatterns(request.url) > 0
    /\ CheckUrlStructure(request.url) > 0
    /\ result.heuristic_score = 0

\* C20: without an API key, or when the lookup times out, raises, answers
\* with another status than 200 or with an unknown resource, the reputation
\* contribution is 0 and analyze_url returns the classification the
\* heuristic score alone gives.
C20_ReputationFailOpen ==
    (/\ result.op = "analyze_url"
     /\ ~request.url.parse_error
     /\ \/ ~request.api_key
        \/ request.lookup.kind # "response"
        \/ request.lookup.status_code # 200
        \/ request.lookup.response_code # 1)
    => /\ result.success
       /\ result.api_score = Fraction(0, 1)
       /\ result.final_score = Min(Round(result.heuristic_score * 100, 60), 100)
       /\ result.classification = Classify(result.final_score)

\* a lookup answered 403 while a URL with a non-zero heuristic score was
\* analysed
C20_Witness ==
    /\ result.op = "analyze_url"
    /\ result.success
    /\ request.api_key
    /\ request.lookup.kind = "response"
    /\ request.lookup.status_code = 403
    /\ result.heuristic_score > 0
    /\ result.api_score = Fraction(0, 1)

\* C21: for a URL that urlparse cannot parse the engine still returns a full
\* result (domain, final score, classification) and the scan request is
\* answered without an error.
C21_UnparseableUrlStillScored ==
    request.url.parse_error
    => /\ result.op = "analyze_url" => result.success
       /\ result.op = "scan_url" => result.status_code = 200

\* C22: for http://payp4l-security.com/login the domain-spoofing and the
\* suspicious-pattern sub-scores are both non-zero and the final score is at
\* least 35, so the classification is phishing or suspicious.
C22_TyposquatLoginFlagged ==
    (result.op = "analyze_url"
     /\ request.url.url = "http://payp4l-security.com/login")
    => /\ result.success
       /\ result.heuristic_breakdown.domain_spoofing > 0
       /\ result.heuristic_breakdown.suspicious_patterns > 0
       /\ result.final_score >= 35
       /\ result.classification \in {"phishing", "suspicious"}

\* C23: for https://192.168.1.1/secure the IP-address sub-score is 15 and the
\* classification is not legitimate.
C23_IpUrlNotLegitimate ==
    (result.op = "analyze_url"
     /\ request.url.url = "https://192.168.1.1/secure")
    => /\ result.success
       /\ result.heuristic_breakdown.ip_address = 15
       /\ result.classification # "legitimate"

\* C26: every sub-score is non-negative and within its cap (domain spoofing
\* and suspicious patterns at most 20, URL structure at most 15, suspicious
\* TLD one of 0, 8, 12, IP address 0 or 15), the heuristic score is the sum
\* of the sub-scores capped at 40, and the raw score, heuristic plus
\* reputation score, is at most 60.
C26_SubScoresWithinCaps ==
    (result.op = "analyze_url" /\ result.success)
    => LET b == result.heuristic_breakdown
       IN  /\ b.domain_spoofing \in 0..20
           /\ b.suspicious_patterns \in 0..20
           /\ b.url_structure \in 0..15
           /\ b.suspicious_tld \in {0, 8, 12}
           /\ b.ip_address \in {0, 15}
           /\ result.heuristic_score = Min(SumScores(b), 40)
           /\ result.heuristic_score * result.api_score.den
                  + result.api_score.num <= 60 * result.api_score.den

\* a URL whose sub-scores sum to more than 40 was analysed while the
\* reputation lookup reported every engine positive
C26_Witness ==
    /\ result.op = "analyze_url"
    /\ result.success
    /\ SumScores(result.heuristic_breakdown) > 40
    /\ result.heuristic_score = 40
    /\ result.api_score.num = 20 * result.api_score.den

\* C27: for a URL not on the allowlist whose host carries an explicit port
\* other than 80, 443, 8080 and 8443, the URL-structure sub-score is 4 more
\* than its other structural features give, up to the cap of 15.
C27_UnusualPortAddsFour ==
    (/\ result.op = "analyze_url"
     /\ result.success
     /\ request.url.port # 0
     /\ request.url.port \notin StandardPorts
     /\ request.url.root_domain \notin LegitimateDomains)
    => result.heuristic_breakdown.url_structure
           = Min(CheckUrlStructure([request.url EXCEPT !.unusual_port = FALSE]) + 4,
                 15)

\* C25: the validation score is confidence_level * 20, with 3 for an absent
\* confidence level, plus 40, 25 or 10 for expertise expert, intermediate or
\* beginner, with beginner for an absent expertise, minus 30 when the comment
\* holds a spam-indicator phrase; a submission with an absent confidence
\* level, expertise or comment is scored by these defaults and is answered
\* without an error.
C25_DefaultsScoredWithoutError ==
    (/\ result.op = "index_submit_feedback"
     /\ request.submission.user_expertise
            \in {NoneStr, "beginner", "intermediate", "expert"})
    => LET s == request.submission
           confidence == IF s.confidence_level = NoneInt THEN 3
                         ELSE s.confidence_level
           weight == CASE s.user_expertise = "expert" -> 40
                       [] s.user_expertise = "intermediate" -> 25
                       [] OTHER -> 10
           spam == s.user_comment.phrases
                       \cap {"buy now", "click here", "free money", "urgent"} # {}
       IN  /\ result.status_code = 200
           /\ result.confidence_score
                  = confidence * 20 + weight - (IF spam THEN 30 ELSE 0)

\* the ids of the records a store holds, in memory or in its file
StoredIds(mem, file) ==
    {mem[k].feedback_id : k \in 1..Len(mem)}
    \cup {file[k].feedback_id : k \in 1..Len(file)}

\* C28: whatever decision strings the review calls carried, every submitted
\* record is in exactly one of the open store, the reviewed store and the
\* rejected store, and a record outside the open store has status approved
\* or rejected.
C28_NoRecordLost ==
    \A id \in 1..nextId :
        LET open == id \in StoredIds(memPending, filePending)
            reviewed == id \in StoredIds(memReviewed, fileReviewed)
            rejected == id \in StoredIds(memRejected, fileRejected)
        IN  /\ open \/ reviewed \/ rejected
            /\ ~(open /\ reviewed) /\ ~(open /\ rejected) /\ ~(reviewed /\ rejected)
            /\ \A k \in 1..Len(fileReviewed) :
                   fileReviewed[k].feedback_id = id
                   => fileReviewed[k].status = APPROVED
            /\ \A k \in 1..Len(fileRejected) :
                   fileRejected[k].feedback_id = id
                   => fileRejected[k].status = REJECTED

\* C29: revoke_token revokes only the session it is called with: when an
\* authenticate call succeeds while sessions opened by earlier calls exist,
\* revoking any of those sessions leaves the token this call returned valid
\* (also for the same username and the same clock second).
C29_LogoutRevokesOnlyItsSession ==
    [][(result' # result /\ result'.op = "authenticate" /\ result'.success)
       => \A t2 \in result'.token : \A s \in active_sessions :
              ValidateToken(t2,
                            RevokeToken(s.token, revoked_tokens',
                                        active_sessions').revoked,
                            now')]_vars

\* C30: every stored failed-attempt count is between 1 and max_attempts; an
\* authenticate call made during a lockout changes neither the count nor the
\* time of the last counted failure, a successful login deletes the count
\* of its username, and no authenticate call changes the entry of another
\* username.
C30_FailedAttemptCountBounded ==
    [][/\ \A v \in DOMAIN failed_attempts' :
              failed_attempts'[v].count \in 1..MaxLoginAttempts
       /\ \A u \in Usernames, p \in Passwords :
              Authenticate(u, p)
              => /\ (/\ u \in DOMAIN failed_attempts
                     /\ failed_attempts[u].count >= MaxLoginAttempts
                     /\ now - failed_attempts[u].last_attempt < LoginTimeout)
                    => /\ ~result'.success
                       /\ failed_attempts' = failed_attempts
                 /\ result'.success => u \notin DOMAIN failed_attempts'
                 /\ \A v \in DOMAIN failed_attempts \ {u} :
                        /\ v \in DOMAIN failed_attempts'
                        /\ failed_attempts'[v] = failed_attempts[v]]_vars

\* a login was refused during the lockout of the admin username, some time
\* after its last counted failure, while another username has failures
\* counted too
C30_Witness ==
    /\ result.op = "authenticate"
    /\ ~result.success
    /\ result.username = AdminUsername
    /\ result.error = "Too many failed attempts"
    /\ AdminUsername \in DOMAIN failed_attempts
    /\ failed_attempts[AdminUsername].count = MaxLoginAttempts
    /\ failed_attempts[AdminUsername].last_attempt < now
    /\ "guest" \in DOMAIN failed_attempts
    /\ failed_attempts["guest"].count \in 1..(MaxLoginAttempts - 1)

\* C24: in the hybrid engine the heuristic score lies in 0..40, the final
\* score, heuristic plus ML plus API score, lies in 0..100, and the
\* classification is Safe for a final score up to 30, Suspicious for a final
\* score above 30 and up to 60, and Phishing above 60.
C24_HybridScoreRangeAndClasses ==
    /\ result.op = "calculate_heuristic_score"
       => /\ 0 <= result.heuristic_score.num
          /\ result.heuristic_score.num <= 40 * result.heuristic_score.den
    /\ result.op = "hybrid_analyze_url"
       => LET h == result.heuristic_score
              f == result.final_score
          IN  /\ 0 <= h.num /\ h.num <= 40 * h.den
              /\ f = Sum3(h, result.ml_score, result.api_score)
              /\ 0 <= f.num /\ f.num <= 100 * f.den
              /\ result.classification \in {"Safe", "Suspicious", "Phishing"}
              /\ result.classification = "Safe" <=> f.num <= 30 * f.den
              /\ result.classification = "Suspicious"
                     <=> (30 * f.den < f.num /\ f.num <= 60 * f.den)
              /\ result.classification = "Phishing" <=> f.num > 60 * f.den

\* a URL with heuristic score 0 was given 40 by the model and 20 by the
\* lookup: its final score is exactly 60 and it is classified Suspicious
C24_Witness ==
    /\ result.op = "hybrid_analyze_url"
    /\ result.heuristic_score.num = 0
    /\ result.ml_score.num = 40 * result.ml_score.den
    /\ result.api_score.num = 20 * result.api_score.den
    /\ result.final_score.num = 60 * result.final_score.den
    /\ result.classification = "Suspicious"

====
